---- MODULE Spec2Model ----
(***************************************************************************)
(* Model of scroll's Pwrite trait (src/src/pwrite.rs): pwrite and          *)
(* pwrite_with over a byte buffer, the capabilities they compose           *)
(* (measure_with, self[offset..], try_into_ctx) and the pread_with of the  *)
(* documented round trip.                                                  *)
(*                                                                         *)
(* Every value is a record [kind, hi, lo]; a 32-bit integer is held as its *)
(* two 16-bit halves because the model checker's integers are signed       *)
(* 32-bit.  Every result is a record [tag, a, b].                          *)
(***************************************************************************)
EXTENDS Integers, Sequences, FiniteSets, TLC

\* buf        the buffer (&mut self), a sequence of bytes
\* buf0       the buffer as it was when the call was made
\* pc         "idle" before the call, "done" after it, "read" after the read
\* entry      the entry point called: "pwrite" or "pwrite_with"
\* n, offset, ctx   the arguments of the call (ctx is Ctx::default() for pwrite)
\* result     what the call returned, or Panic
\* trace      the capability calls the call made, in order
\* readArgs, readResult   the pread_with::<u32> made after the write
VARIABLES buf, buf0, pc, entry, n, offset, ctx, result, trace, readArgs, readResult

vars == <<buf, buf0, pc, entry, n, offset, ctx, result, trace, readArgs, readResult>>

\* ---------------------------------------------------------------- bounds
MaxBufLen == 8
MaxOffset == 11

\* ------------------------------------------------------------ the inputs
Fills == {0, 170}

Buffers == { [i \in 1..k |-> f] : k \in 0..MaxBufLen, f \in Fills }

Offsets == 0..MaxOffset

\* Ctx: the two byte orders of scroll::Endian, whose buffers measure as
\* their physical length, and two framing contexts (little-endian) under
\* which the measured length is below / above the physical length.
Contexts == {"LE", "BE", "HdrLE", "PadLE"}

\* Ctx::default()
CtxDefault == "LE"

IsBigEndian(c) == c = "BE"

U8(v) == [kind |-> "u8", hi |-> 0, lo |-> v]
U16(v) == [kind |-> "u16", hi |-> 0, lo |-> v]
U32(h, l) == [kind |-> "u32", hi |-> h, lo |-> l]
Foo(v) == [kind |-> "Foo", hi |-> 0, lo |-> v]
Pair(a, b) == [kind |-> "Pair", hi |-> a, lo |-> b]
Unit == [kind |-> "Unit", hi |-> 0, lo |-> 0]

\* 0xbeefbeef
Beef == U32(48879, 48879)

Values == { U8(42), U16(258), Beef, U32(258, 772), Foo(127), Pair(258, 772), Unit }

\* ----------------------------------------------------------- the results
Ok == [tag |-> "Ok", a |-> 0, b |-> 0]
BadOffset(o) == [tag |-> "BadOffset", a |-> o, b |-> 0]
TooBig(size, len) == [tag |-> "TooBig", a |-> size, b |-> len]
Custom == [tag |-> "Custom", a |-> 0, b |-> 0]
Panic == [tag |-> "Panic", a |-> 0, b |-> 0]
NoResult == [tag |-> "None", a |-> 0, b |-> 0]
OkVal(h, l) == [tag |-> "OkVal", a |-> h, b |-> l]

\* ------------------------------------------------------- the capabilities
Max(x, y) == IF x >= y THEN x ELSE y

\* MeasureWith::measure_with(&ctx)
measure_with(self, c) ==
  CASE c = "HdrLE" -> Max(Len(self) - 1, 0)
    [] c = "PadLE" -> Len(self) + 2
    [] OTHER -> Len(self)

\* the slice's IndexMut<RangeFrom<usize>>: self[offset..] panics past the end
IndexPanics(self, o) == o > Len(self)

IndexRangeFrom(self, o) == SubSeq(self, o + 1, Len(self))

\* the bytes of a 16-bit integer under the context's byte order
Bytes16(v, c) ==
  IF IsBigEndian(c) THEN << v \div 256, v % 256 >> ELSE << v % 256, v \div 256 >>

Bytes32(h, l, c) ==
  IF IsBigEndian(c) THEN Bytes16(h, c) \o Bytes16(l, c) ELSE Bytes16(l, c) \o Bytes16(h, c)

\* dst with its first Len(bytes) bytes overwritten
Overwrite(dst, bytes) == bytes \o SubSeq(dst, Len(bytes) + 1, Len(dst))

\* TryIntoCtx of the integer types: reject a short view, else write the bytes
IntInto(bytes, dst) ==
  IF Len(bytes) > Len(dst)
  THEN [res |-> TooBig(Len(bytes), Len(dst)), dst |-> dst]
  ELSE [res |-> Ok, dst |-> Overwrite(dst, bytes)]

\* the events of one call, in the order the code makes them
EvMeasure(c, len) == [ev |-> "measure", ctx |-> c, len |-> len, res |-> NoResult]
EvIndex(o) == [ev |-> "index", ctx |-> "", len |-> o, res |-> NoResult]
EvConvert(c, len, r) == [ev |-> "convert", ctx |-> c, len |-> len, res |-> r]

\* a bounds check that lets the offset at the very end through
OutOfBoundsPastEnd(o, len) == o > len

\* the bounds check of pwrite_with
OutOfBounds(o, len) == o >= len

\* a bounds error that loses the offset
BoundsErrorNoOffset(o) == BadOffset(0)

\* the error of the bounds check
BoundsError(o) == BadOffset(o)

RECURSIVE pwrite_with(_, _, _, _)
RECURSIVE try_into_ctx(_, _, _)

\* the documented Foo(u16): Custom("whatever") on a view under 2 bytes, else
\* this.pwrite_with(self.0, 0, le)?
FooTryIntoCtx(v, dst, c) ==
  IF Len(dst) < 2
  THEN [res |-> Custom, dst |-> dst]
  ELSE LET r == pwrite_with(dst, U16(v.lo), 0, c)
       IN [res |-> r.res, dst |-> r.buf]

\* a struct of two 16-bit fields, each written by a nested pwrite_with(..)?
PairTryIntoCtx(v, dst, c) ==
  LET r1 == pwrite_with(dst, U16(v.hi), 0, c)
  IN IF r1.res # Ok
     THEN [res |-> r1.res, dst |-> r1.buf]
     ELSE LET r2 == pwrite_with(r1.buf, U16(v.lo), 2, c)
          IN [res |-> r2.res, dst |-> r2.buf]

\* TryIntoCtx::try_into_ctx(self, this, ctx) -> [res, dst]
try_into_ctx(v, dst, c) ==
  CASE v.kind = "u8" -> IntInto(<< v.lo >>, dst)
    [] v.kind = "u16" -> IntInto(Bytes16(v.lo, c), dst)
    [] v.kind = "u32" -> IntInto(Bytes32(v.hi, v.lo, c), dst)
    [] v.kind = "Unit" -> [res |-> Ok, dst |-> dst]
    [] v.kind = "Foo" -> FooTryIntoCtx(v, dst, c)
    [] v.kind = "Pair" -> PairTryIntoCtx(v, dst, c)

\* pwrite_with that takes the sub-view and converts before it checks the bounds
pwrite_with_eager(self, v, o, c) ==
  LET len == measure_with(self, c)
  IN IF IndexPanics(self, o)
     THEN [res |-> Panic, buf |-> self, trace |-> << EvMeasure(c, len), EvIndex(o) >>]
     ELSE LET dst == IndexRangeFrom(self, o)
              r == try_into_ctx(v, dst, c)
              t == << EvMeasure(c, len), EvIndex(o), EvConvert(c, Len(dst), r.res) >>
          IN [res |-> IF OutOfBounds(o, len) THEN BoundsError(o) ELSE r.res,
              buf |-> SubSeq(self, 1, o) \o r.dst,
              trace |-> t]

\* pwrite_with that wraps every conversion error into its own error
pwrite_with_wrapping(self, v, o, c) ==
  LET len == measure_with(self, c)
  IN IF OutOfBounds(o, len)
     THEN [res |-> BoundsError(o), buf |-> self, trace |-> << EvMeasure(c, len) >>]
     ELSE IF IndexPanics(self, o)
     THEN [res |-> Panic, buf |-> self, trace |-> << EvMeasure(c, len), EvIndex(o) >>]
     ELSE LET dst == IndexRangeFrom(self, o)
              r == try_into_ctx(v, dst, c)
          IN [res |-> IF r.res = Ok THEN Ok ELSE Custom,
              buf |-> SubSeq(self, 1, o) \o r.dst,
              trace |-> << EvMeasure(c, len), EvIndex(o), EvConvert(c, Len(dst), r.res) >>]

\* pwrite_with that hands the conversion the sub-view one byte too far
pwrite_with_shifted(self, v, o, c) ==
  LET len == measure_with(self, c)
  IN IF OutOfBounds(o, len)
     THEN [res |-> BoundsError(o), buf |-> self, trace |-> << EvMeasure(c, len) >>]
     ELSE IF IndexPanics(self, o + 1)
     THEN [res |-> Panic, buf |-> self, trace |-> << EvMeasure(c, len), EvIndex(o + 1) >>]
     ELSE LET dst == IndexRangeFrom(self, o + 1)
              r == try_into_ctx(v, dst, c)
          IN [res |-> r.res,
              buf |-> SubSeq(self, 1, o + 1) \o r.dst,
              trace |-> << EvMeasure(c, len), EvIndex(o + 1), EvConvert(c, Len(dst), r.res) >>]

\* pwrite_with that measures under the default context, not under ctx
pwrite_with_default_measure(self, v, o, c) ==
  LET len == measure_with(self, CtxDefault)
  IN IF OutOfBounds(o, len)
     THEN [res |-> BoundsError(o), buf |-> self, trace |-> << EvMeasure(CtxDefault, len) >>]
     ELSE IF IndexPanics(self, o)
     THEN [res |-> Panic, buf |-> self, trace |-> << EvMeasure(CtxDefault, len), EvIndex(o) >>]
     ELSE LET dst == IndexRangeFrom(self, o)
              r == try_into_ctx(v, dst, c)
          IN [res |-> r.res,
              buf |-> SubSeq(self, 1, o) \o r.dst,
              trace |-> << EvMeasure(CtxDefault, len), EvIndex(o),
                           EvConvert(c, Len(dst), r.res) >>]

\* Pwrite::pwrite_with(&mut self, n, offset, ctx) -> [res, buf, trace]
pwrite_with(self, v, o, c) ==
  LET len == measure_with(self, c)
  IN IF OutOfBounds(o, len)
     THEN [res |-> BoundsError(o), buf |-> self, trace |-> << EvMeasure(c, len) >>]
     ELSE IF IndexPanics(self, o)
     THEN [res |-> Panic, buf |-> self, trace |-> << EvMeasure(c, len), EvIndex(o) >>]
     ELSE LET dst == IndexRangeFrom(self, o)
              r == try_into_ctx(v, dst, c)
          IN [res |-> r.res,
              buf |-> SubSeq(self, 1, o) \o r.dst,
              trace |-> << EvMeasure(c, len), EvIndex(o), EvConvert(c, Len(dst), r.res) >>]

\* pwrite that picks the big-endian context instead of the default one
pwrite_big_endian(self, v, o) == pwrite_with(self, v, o, "BE")

\* Pwrite::pwrite(&mut self, n, offset)
pwrite(self, v, o) == pwrite_with(self, v, o, CtxDefault)

\* Pread::pread_with::<u32>(offset, ctx)
pread_with_u32(self, o, c) ==
  IF o >= measure_with(self, c) THEN BadOffset(o)
  ELSE IF IndexPanics(self, o) THEN Panic
  ELSE LET src == IndexRangeFrom(self, o)
       IN IF Len(src) < 4 THEN TooBig(4, Len(src))
          ELSE IF IsBigEndian(c)
               THEN OkVal(src[1] * 256 + src[2], src[3] * 256 + src[4])
               ELSE OkVal(src[4] * 256 + src[3], src[2] * 256 + src[1])

\* ------------------------------------------------------ the state machine
NoArgs == [offset |-> 0, ctx |-> ""]

Init ==
  /\ buf \in Buffers
  /\ buf0 = buf
  /\ pc = "idle"
  /\ entry = ""
  /\ n = Unit
  /\ offset = 0
  /\ ctx = ""
  /\ result = NoResult
  /\ trace = << >>
  /\ readArgs = NoArgs
  /\ readResult = NoResult

\* the effect of one write call whose outcome is r
Returns(e, v, o, c, r) ==
  /\ pc = "idle"
  /\ pc' = "done"
  /\ entry' = e
  /\ n' = v
  /\ offset' = o
  /\ ctx' = c
  /\ buf0' = buf
  /\ buf' = r.buf
  /\ result' = r.res
  /\ trace' = r.trace
  /\ UNCHANGED <<readArgs, readResult>>

Pwrite == \E v \in Values, o \in Offsets :
  Returns("pwrite", v, o, CtxDefault, pwrite(buf, v, o))

PwriteWith == \E v \in Values, o \in Offsets, c \in Contexts :
  Returns("pwrite_with", v, o, c, pwrite_with(buf, v, o, c))

PreadWith == \E o \in {0, offset}, c \in Contexts :
  /\ pc = "done"
  /\ result # Panic
  /\ pc' = "read"
  /\ readArgs' = [offset |-> o, ctx |-> c]
  /\ readResult' = pread_with_u32(buf, o, c)
  /\ UNCHANGED <<buf, buf0, entry, n, offset, ctx, result, trace>>

Next == Pwrite \/ PwriteWith \/ PreadWith

Spec == Init /\ [][Next]_vars

\* ------------------------------------------------------------ properties
Done == pc # "idle"

\* the length of the buffer the call was made on, measured under its context
Measured == measure_with(buf0, ctx)

EventsOf(kind) == SelectSeq(trace, LAMBDA e : e.ev = kind)

ConvCalls == Len(EventsOf("convert"))

Zeros(k) == [i \in 1..k |-> 0]

TypeOK ==
  /\ pc \in {"idle", "done", "read"}
  /\ Len(buf) = Len(buf0)
  /\ result.tag \in {"None", "Ok", "BadOffset", "TooBig", "Custom", "Panic"}

\* C1 as stated: the call returns BadOffset(offset) if and only if the offset
\* is at or above the measured length.
C1_BadOffsetIffOutOfBounds ==
  Done => ((result = BadOffset(offset)) <=> (offset >= Measured))

\* C1 amended: the call fails at its own bounds check, with BadOffset(offset)
\* and without invoking the conversion, if and only if the offset is at or
\* above the measured length (offset = length included).
C1_BoundsLaw ==
  Done => ((offset >= Measured) <=> (result = BadOffset(offset) /\ ConvCalls = 0))

C1_Witness ==
  /\ Done
  /\ Measured > 0
  /\ offset = Measured
  /\ result = BadOffset(offset)

\* C2: when the bounds check fails, no sub-view is taken and the conversion
\* is invoked zero times.
C2_NoInvocationOnFailure ==
  (Done /\ offset >= Measured) => (Len(EventsOf("index")) = 0 /\ ConvCalls = 0)

C2_Witness ==
  /\ Done
  /\ offset >= Measured
  /\ offset < Len(buf0)
  /\ n.kind = "u8"
  /\ result = BadOffset(offset)

\* C3: a call that fails its bounds check leaves every byte of the buffer as
\* it was before the call.
C3_FailedCheckLeavesBuffer ==
  (Done /\ offset >= Measured) => buf = buf0

C3_Witness ==
  /\ Done
  /\ offset >= Measured
  /\ offset < Len(buf0)
  /\ n.kind = "u32"
  /\ result.tag = "BadOffset"
  /\ buf = buf0

\* C4: when the bounds check passes and the conversion is invoked, the result
\* of the call is the result the conversion returned, success or error alike.
C4_PassThrough ==
  (Done /\ offset < Measured /\ ConvCalls > 0) =>
     /\ result = try_into_ctx(n, IndexRangeFrom(buf0, offset), ctx).res
     /\ result = EventsOf("convert")[1].res

C4_Witness ==
  /\ Done
  /\ offset < Measured
  /\ ConvCalls = 1
  /\ result.tag = "TooBig"

\* C5: pwrite(value, offset) returns the result, leaves the buffer and makes
\* the calls of pwrite_with(value, offset, Ctx::default()) from the same buffer.
C5_DefaultContextEquivalence ==
  (Done /\ entry = "pwrite") =>
     LET r == pwrite_with(buf0, n, offset, CtxDefault)
     IN result = r.res /\ buf = r.buf /\ trace = r.trace

C5_Witness ==
  /\ Done
  /\ entry = "pwrite"
  /\ n.kind = "u32"
  /\ result = Ok
  /\ buf # buf0

\* C6 as stated: every call ends with a typed result (success, BadOffset or
\* the conversion's error) and never crashes.
C6_NeverCrashes ==
  Done => result.tag \in {"Ok", "BadOffset", "TooBig", "Custom"}

\* C7 as stated: for every offset below the measured length the conversion is
\* invoked exactly once, with a sub-view of the physical length minus offset.
C7_OnceWithSubView ==
  (Done /\ offset < Measured) =>
     /\ ConvCalls = 1
     /\ EventsOf("convert")[1].len = Len(buf0) - offset

\* C8 as stated: a write at offset 4 into a 4-byte buffer fails with
\* BadOffset(4) whatever the value and the context, the buffer unchanged.
C8_BoundaryAnyContext ==
  (Done /\ Len(buf0) = 4 /\ offset = 4) => (result = BadOffset(4) /\ buf = buf0)

\* C8 amended: a write at offset 4 into a 4-byte buffer fails with
\* BadOffset(4), the buffer unchanged, whatever the value, under every context
\* that measures the buffer as at most 4.
C8_Boundary ==
  (Done /\ Len(buf0) = 4 /\ offset = 4 /\ Measured <= 4) =>
     (result = BadOffset(4) /\ buf = buf0)

C8_Witness ==
  /\ Done
  /\ Len(buf0) = 4
  /\ offset = 4
  /\ Measured = 4
  /\ n = Unit
  /\ result = BadOffset(4)
  /\ buf = buf0

\* C9: a 32-bit integer written at offset 0 into 8 zero bytes under the
\* little-endian context succeeds, reads back at offset 0 under the same
\* context as the same integer, and leaves bytes [4..8] zero.
C9_RoundTrip ==
  (Done /\ buf0 = Zeros(8) /\ n.kind = "u32" /\ offset = 0 /\ ctx = "LE") =>
     /\ result = Ok
     /\ SubSeq(buf, 5, 8) = Zeros(4)
     /\ (pc = "read" /\ readArgs = [offset |-> 0, ctx |-> "LE"])
           => readResult = OkVal(n.hi, n.lo)

C9_Witness ==
  /\ pc = "read"
  /\ buf0 = Zeros(8)
  /\ n = Beef
  /\ offset = 0
  /\ ctx = "LE"
  /\ readArgs = [offset |-> 0, ctx |-> "LE"]
  /\ readResult = OkVal(48879, 48879)

\* C10: within one call the length is measured exactly once, first of all,
\* under the call's context, and the conversion gets that same context.
C10_SingleContext ==
  Done =>
     /\ Len(EventsOf("measure")) = 1
     /\ trace[1].ev = "measure"
     /\ trace[1].ctx = ctx
     /\ trace[1].len = Measured
     /\ \A i \in 1..Len(trace) :
          trace[i].ev = "convert" => (i > 1 /\ trace[i].ctx = trace[1].ctx)

C10_Witness ==
  /\ Done
  /\ ctx = "PadLE"
  /\ ConvCalls = 1
  /\ result = Ok
  /\ buf # buf0

====
